---- MODULE Spec2Model ----
(***************************************************************************)
(* Tenant resolution by hostname, credential validation with workspace     *)
(* binding, exchange-token redemption and the workspace update handler of  *)
(* the server (apps/server).                                               *)
(*                                                                         *)
(* Strings that the code splits (Host headers, hostnames, the base domain) *)
(* are sequences of tokens: a label, "." or ":".  Ids and messages, which  *)
(* the code only compares, are plain strings.                              *)
(***************************************************************************)
EXTENDS Integers, Sequences, FiniteSets, TLC

VARIABLES
  env,         \* EnvironmentService: deployment configuration, fixed at start
  workspaces,  \* WorkspaceRepo: workspace id -> hostname (the lookup store)
  userStatus,  \* UserRepo: user id -> "missing" | "active" | "deactivated" | "deleted"
  reqs,        \* the requests in flight, one per slot
  now,         \* the clock that token expiry is measured against
  redeemed,    \* history: the exchange tokens redeemed successfully so far
  former,      \* history: <<workspace id, hostname>> pairs that were changed
  boot         \* the server process from environment validation to start-up

vars == <<env, workspaces, userStatus, reqs, now, redeemed, former, boot>>

----------------------------------------------------------------------------
(* JavaScript values *)

\* the value undefined / null of a string-valued expression that is split
Undefined == <<"#undefined">>
Null == <<"#null">>
\* the value undefined / null of an id-valued expression
UndefinedId == "#undefined"
NullId == "#null"

\* `${v}` inside a template string
TemplateStr(v) == IF v = Undefined THEN <<"undefined">>
                  ELSE IF v = Null THEN <<"null">> ELSE v

\* JavaScript truthiness of a string value
TruthyStr(v) == v # Undefined /\ v # Null /\ v # <<>>
TruthyId(v) == v # UndefinedId /\ v # NullId /\ v # ""

\* s.split(sep)[0]: the part of s before the first sep (s itself if none)
RECURSIVE SplitFirst(_, _)
SplitFirst(s, sep) ==
  IF s = <<>> THEN <<>>
  ELSE IF Head(s) = sep THEN <<>>
  ELSE <<Head(s)>> \o SplitFirst(Tail(s), sep)

\* LOWER(...) of the store, per label
LowerLabel(l) == IF l = "ACME" THEN "acme" ELSE l
Lower(s) == [i \in DOMAIN s |-> LowerLabel(s[i])]

----------------------------------------------------------------------------
(* The deployment *)

BaseDomain == <<"wiki", ".", "weseegpt", ".", "com">>
Port == <<"3000">>

WsIds == {"w1", "w2"}
UserIds == {"u1", "u2", "u3"}

\* users: the workspace each belongs to and its role there
UserWorkspace(u) == IF u = "u2" THEN "w2" ELSE "w1"
UserRole(u) == IF u = "u3" THEN "member" ELSE "owner"

\* hostnames a workspace may carry
Hostnames == {<<"acme">>, <<"demo">>, <<"wiki">>, <<"www">>}

\* EnvironmentService
isCloud == env.cloud
isSelfHosted == ~env.cloud
getSubdomainHost == env.subdomainHost
isHttps == env.https

\* whether require('ee/api-key/api-key.service') finds the module in this build
apiKeyModuleBundled == env.apiKeyModule

Envs ==
  [cloud : {TRUE}, subdomainHost : {BaseDomain, Undefined},
   https : BOOLEAN, apiKeyModule : BOOLEAN]
  \cup
  [cloud : {FALSE}, subdomainHost : {Undefined},
   https : BOOLEAN, apiKeyModule : BOOLEAN]

----------------------------------------------------------------------------
(* WorkspaceRepo and UserRepo *)

NoWorkspace == [id |-> NullId, hostname |-> Null]
Workspace(w) == [id |-> w, hostname |-> workspaces[w]]
IsWorkspace(ws) == ws.id # NullId

\* the oldest workspace (ids are in creation order)
findFirst ==
  IF "w1" \in DOMAIN workspaces THEN Workspace("w1")
  ELSE IF "w2" \in DOMAIN workspaces THEN Workspace("w2")
  ELSE NoWorkspace

\* WHERE LOWER(hostname) = LOWER(:hostname)
findByHostname(h) ==
  IF \E w \in DOMAIN workspaces : Lower(workspaces[w]) = Lower(h)
  THEN Workspace(CHOOSE w \in DOMAIN workspaces :
                   Lower(workspaces[w]) = Lower(h))
  ELSE NoWorkspace

findWorkspaceById(id) ==
  IF id \in DOMAIN workspaces THEN Workspace(id) ELSE NoWorkspace

NoUser == [id |-> NullId, workspaceId |-> NullId, role |-> "none",
           deactivatedAt |-> FALSE, deletedAt |-> FALSE]

\* userRepo.findById(userId, workspaceId)
findUserById(u, w) ==
  IF u \in UserIds /\ UserWorkspace(u) = w /\ userStatus[u] # "missing"
  THEN [id |-> u, workspaceId |-> w, role |-> UserRole(u),
        deactivatedAt |-> (userStatus[u] = "deactivated"),
        deletedAt |-> (userStatus[u] = "deleted")]
  ELSE NoUser

----------------------------------------------------------------------------
(* Requests *)

Slots == {"r1", "r2"}

\* JwtType
ACCESS == "access"
EXCHANGE == "exchange"
API_KEY == "api_key"

NoPayload == [sub |-> NullId, workspaceId |-> UndefinedId, type |-> "none"]

\* the payloads of the validly signed, unexpired tokens a client may present
\* on a guarded route
Payloads ==
  [sub : {"u1"}, workspaceId : {"w1", UndefinedId},
   type : {ACCESS, EXCHANGE, API_KEY}]
  \cup [sub : {"u1", "u2"}, workspaceId : {"w2"}, type : {ACCESS}]
  \cup [sub : {"u3"}, workspaceId : {"w1"}, type : {ACCESS}]

\* the token of the query string of auth/exchange
AbsentToken == [kind |-> "absent", payload |-> NoPayload, exp |-> 0]

\* Host headers a client may send
Hosts ==
  { BaseDomain, BaseDomain \o <<":">> \o Port,
    <<"www", ".">> \o BaseDomain,
    <<"acme", ".">> \o BaseDomain,
    <<"ACME", ".">> \o BaseDomain \o <<":">> \o Port,
    <<"demo", ".">> \o BaseDomain,
    <<"other", ".">> \o BaseDomain,
    <<"acme", ".", "evil", ".", "com">>,
    <<>> }

NoCookie ==
  [op |-> "none", value |-> NoPayload, domain |-> Undefined,
   path |-> Undefined, httpOnly |-> FALSE, secure |-> FALSE,
   sameSite |-> "unset"]
NoRes == [status |-> "pending", message |-> "", cookie |-> NoCookie,
          redirect |-> Undefined, exchangeToken |-> NoPayload]
NoPrincipal == [user |-> NoUser, workspace |-> NoWorkspace]

\* req.raw before the tenant resolver has run
RawInit == [workspaceId |-> UndefinedId, workspace |-> NoWorkspace,
            isBaseDomain |-> FALSE]

\* pc is the request's position in the pipeline; route is "guarded"
\* (behind JwtAuthGuard) or the name of a public route; handler names the
\* controller method that served it.  History kept with the request:
\* lookups (the workspaces its hostname lookups found), validatorReads,
\* hostnameBefore/After (the store's hostname around its update), replay
\* formerAtArrival (the hostname changes committed before it arrived) and
\* at (the time its handler ran).
IdleReq ==
  [pc |-> "idle", route |-> "none", handler |-> "none", host |-> <<>>,
   payload |-> NoPayload, token |-> AbsentToken,
   raw |-> RawInit, resolverRan |-> FALSE, nextCalls |-> 0,
   lookups |-> <<>>, validatorReads |-> <<>>,
   principal |-> NoPrincipal, dto |-> [hostname |-> Undefined],
   hostnameBefore |-> Null, hostnameAfter |-> Null, replay |-> FALSE,
   formerAtArrival |-> {}, at |-> 0, res |-> NoRes]

Unauthorized(msg) == [NoRes EXCEPT !.status = "unauthorized", !.message = msg]
Forbidden(msg) == [NoRes EXCEPT !.status = "forbidden", !.message = msg]
BadRequest(msg) == [NoRes EXCEPT !.status = "badrequest", !.message = msg]

\* a request arrives: nothing has handled it yet
NewRequest(r, route, host, payload, token) ==
  /\ reqs[r].pc \in {"idle", "done"}
  /\ reqs' = [reqs EXCEPT ![r] =
       [IdleReq EXCEPT !.pc = "new", !.route = route, !.host = host,
                       !.payload = payload, !.token = token,
                       !.formerAtArrival = former]]
  /\ UNCHANGED <<boot, env, workspaces, userStatus, now, redeemed, former>>

----------------------------------------------------------------------------
(* DomainMiddleware.use: the tenant resolver *)

\* mutant: the www variant of the base domain is not recognised
IsBaseHost_NoWww(hostname) == hostname = getSubdomainHost

\* mutant: only the www variant of the base domain is recognised
IsBaseHost_WwwOnly(hostname) ==
  hostname = <<"www", ".">> \o TemplateStr(getSubdomainHost)

\* hostname === subdomainHost || hostname === `www.${subdomainHost}`
IsBaseHost(hostname) ==
  \/ hostname = getSubdomainHost
  \/ hostname = <<"www", ".">> \o TemplateStr(getSubdomainHost)

\* mutant: a failed lookup leaves req.raw untouched instead of storing null
ResolveRaw_NotFoundUnset(raw, header) ==
  LET hostname == SplitFirst(header, ":")
      subdomain == SplitFirst(hostname, ".")
  IN IF isSelfHosted
     THEN LET workspace == findFirst
          IN IF ~IsWorkspace(workspace)
             THEN raw
             ELSE [raw EXCEPT !.workspaceId = workspace.id,
                              !.workspace = workspace]
     ELSE IF IsBaseHost(hostname)
          THEN [raw EXCEPT !.workspaceId = NullId, !.isBaseDomain = TRUE]
          ELSE LET workspace == findByHostname(subdomain)
               IN IF ~IsWorkspace(workspace)
                  THEN raw
                  ELSE [raw EXCEPT !.workspaceId = workspace.id,
                                   !.workspace = workspace]

\* the fields the resolver leaves on req.raw
ResolveRaw(raw, header) ==
  LET hostname == SplitFirst(header, ":")
      subdomain == SplitFirst(hostname, ".")
  IN IF isSelfHosted
     THEN LET workspace == findFirst
          IN IF ~IsWorkspace(workspace)
             THEN [raw EXCEPT !.workspaceId = NullId]
             ELSE [raw EXCEPT !.workspaceId = workspace.id,
                              !.workspace = workspace]
     ELSE IF isCloud
     THEN IF IsBaseHost(hostname)
          THEN [raw EXCEPT !.workspaceId = NullId, !.isBaseDomain = TRUE]
          ELSE LET workspace == findByHostname(subdomain)
               IN IF ~IsWorkspace(workspace)
                  THEN [raw EXCEPT !.workspaceId = NullId]
                  ELSE [raw EXCEPT !.workspaceId = workspace.id,
                                   !.workspace = workspace]
     ELSE raw

\* the workspace a hostname lookup of the resolver found, if it made one
ResolverLookup(header) ==
  LET subdomain == SplitFirst(SplitFirst(header, ":"), ".")
  IN IF isCloud /\ ~IsBaseHost(SplitFirst(header, ":"))
        /\ IsWorkspace(findByHostname(subdomain))
     THEN <<findByHostname(subdomain).id>>
     ELSE <<>>

\* mutant: the resolver rejects a deployment without a workspace
ResolverThrows_NotFound(header) ==
  IF isSelfHosted /\ ~IsWorkspace(findFirst) THEN "Workspace not found"
  ELSE ""

\* the message of the exception use() throws, or "": no path throws
ResolverThrows(header) == ""

\* mutant: the base-domain path does not return after calling next
ResolverNext_FallThrough(header) ==
  IF isCloud /\ IsBaseHost(SplitFirst(header, ":")) THEN 2 ELSE 1

\* how often use() calls next() on the path it takes
ResolverNext(header) ==
  LET hostname == SplitFirst(header, ":")
      subdomain == SplitFirst(hostname, ".")
  IN IF isSelfHosted
     THEN IF ~IsWorkspace(findFirst) THEN 1 ELSE 1
     ELSE IF isCloud
     THEN IF IsBaseHost(hostname) THEN 1
          ELSE IF ~IsWorkspace(findByHostname(subdomain)) THEN 1 ELSE 1
     ELSE 1

NotFound(msg) == [NoRes EXCEPT !.status = "notfound", !.message = msg]

DomainMiddleware(r) ==
  /\ reqs[r].pc = "new"
  /\ reqs' = [reqs EXCEPT ![r] =
       IF ResolverThrows(reqs[r].host) # ""
       THEN [@ EXCEPT !.pc = "done", !.resolverRan = TRUE,
                      !.res = NotFound(ResolverThrows(reqs[r].host))]
       ELSE [@ EXCEPT !.pc = "resolved",
                      !.raw = ResolveRaw(reqs[r].raw, reqs[r].host),
                      !.resolverRan = TRUE,
                      !.lookups = @ \o ResolverLookup(reqs[r].host),
                      !.nextCalls = @ + ResolverNext(reqs[r].host)]]
  /\ UNCHANGED <<boot, env, workspaces, userStatus, now, redeemed, former>>

----------------------------------------------------------------------------
(* JwtStrategy.validate: the credential validator *)

MsgUnauthorized == "Unauthorized"
MsgMismatch == "Workspace does not match"
MsgApiKeyMissing == "Enterprise API Key module missing"

\* mutant: the validator's own hostname lookup only logs, it never compares
TenantCheck_FallbackNoCompare(raw, header, payload) ==
  LET hostname == SplitFirst(header, ":")
      subdomain == SplitFirst(hostname, ".")
      pass == [error |-> "", found |-> <<>>, reads |-> <<>>]
  IN IF ~TruthyId(payload.workspaceId)
     THEN [pass EXCEPT !.error = MsgUnauthorized]
     ELSE IF isCloud
     THEN IF IsBaseHost(hostname)
          THEN pass
          ELSE IF TruthyId(raw.workspaceId)
          THEN IF raw.workspaceId # payload.workspaceId
               THEN [pass EXCEPT !.error = MsgMismatch]
               ELSE pass
          ELSE LET workspace == findByHostname(subdomain)
               IN IF IsWorkspace(workspace)
                  THEN [error |-> "", found |-> <<workspace.id>>,
                        reads |-> <<"findByHostname">>]
                  ELSE [pass EXCEPT !.reads = <<"findByHostname">>]
     ELSE IF TruthyId(raw.workspaceId)
             /\ raw.workspaceId # payload.workspaceId
          THEN [pass EXCEPT !.error = MsgMismatch]
          ELSE pass

\* mutant: the workspace-id claim is checked after the tenant check
TenantCheck_LateIdCheck(raw, header, payload) ==
  LET hostname == SplitFirst(header, ":")
      subdomain == SplitFirst(hostname, ".")
      pass == [error |-> "", found |-> <<>>, reads |-> <<>>]
      idCheck(t) == IF t.error = "" /\ ~TruthyId(payload.workspaceId)
                    THEN [t EXCEPT !.error = MsgUnauthorized] ELSE t
  IN idCheck(
     IF isCloud
     THEN IF IsBaseHost(hostname)
          THEN pass
          ELSE IF TruthyId(raw.workspaceId)
          THEN IF raw.workspaceId # payload.workspaceId
               THEN [pass EXCEPT !.error = MsgMismatch]
               ELSE pass
          ELSE LET workspace == findByHostname(subdomain)
               IN IF IsWorkspace(workspace)
                  THEN IF workspace.id # payload.workspaceId
                       THEN [error |-> MsgMismatch,
                             found |-> <<workspace.id>>,
                             reads |-> <<"findByHostname">>]
                       ELSE [error |-> "",
                             found |-> <<workspace.id>>,
                             reads |-> <<"findByHostname">>]
                  ELSE [pass EXCEPT !.reads = <<"findByHostname">>]
     ELSE IF TruthyId(raw.workspaceId)
             /\ raw.workspaceId # payload.workspaceId
          THEN [pass EXCEPT !.error = MsgMismatch]
          ELSE pass)

\* mutant: single-tenant mode never compares workspace ids
TenantCheck_SelfHostedNoCompare(raw, header, payload) ==
  LET hostname == SplitFirst(header, ":")
      subdomain == SplitFirst(hostname, ".")
      pass == [error |-> "", found |-> <<>>, reads |-> <<>>]
  IN IF ~TruthyId(payload.workspaceId)
     THEN [pass EXCEPT !.error = MsgUnauthorized]
     ELSE IF isCloud
     THEN IF IsBaseHost(hostname)
          THEN pass
          ELSE IF TruthyId(raw.workspaceId)
          THEN IF raw.workspaceId # payload.workspaceId
               THEN [pass EXCEPT !.error = MsgMismatch]
               ELSE pass
          ELSE LET workspace == findByHostname(subdomain)
               IN IF IsWorkspace(workspace)
                  THEN IF workspace.id # payload.workspaceId
                       THEN [error |-> MsgMismatch,
                             found |-> <<workspace.id>>,
                             reads |-> <<"findByHostname">>]
                       ELSE [error |-> "",
                             found |-> <<workspace.id>>,
                             reads |-> <<"findByHostname">>]
                  ELSE [pass EXCEPT !.reads = <<"findByHostname">>]
     ELSE pass

\* mutant: a workspace id the resolver attached is not compared
TenantCheck_ResolvedNoCompare(raw, header, payload) ==
  LET hostname == SplitFirst(header, ":")
      subdomain == SplitFirst(hostname, ".")
      pass == [error |-> "", found |-> <<>>, reads |-> <<>>]
  IN IF ~TruthyId(payload.workspaceId)
     THEN [pass EXCEPT !.error = MsgUnauthorized]
     ELSE IF isCloud
     THEN IF IsBaseHost(hostname)
          THEN pass
          ELSE IF TruthyId(raw.workspaceId)
          THEN pass
          ELSE LET workspace == findByHostname(subdomain)
               IN IF IsWorkspace(workspace)
                  THEN IF workspace.id # payload.workspaceId
                       THEN [error |-> MsgMismatch,
                             found |-> <<workspace.id>>,
                             reads |-> <<"findByHostname">>]
                       ELSE [error |-> "",
                             found |-> <<workspace.id>>,
                             reads |-> <<"findByHostname">>]
                  ELSE [pass EXCEPT !.reads = <<"findByHostname">>]
     ELSE IF TruthyId(raw.workspaceId)
             /\ raw.workspaceId # payload.workspaceId
          THEN [pass EXCEPT !.error = MsgMismatch]
          ELSE pass

\* mutant: a hostname that matches no workspace is a mismatch
TenantCheck_UnknownHostRejected(raw, header, payload) ==
  LET hostname == SplitFirst(header, ":")
      subdomain == SplitFirst(hostname, ".")
      pass == [error |-> "", found |-> <<>>, reads |-> <<>>]
  IN IF ~TruthyId(payload.workspaceId)
     THEN [pass EXCEPT !.error = MsgUnauthorized]
     ELSE IF isCloud
     THEN IF IsBaseHost(hostname)
          THEN pass
          ELSE IF TruthyId(raw.workspaceId)
          THEN IF raw.workspaceId # payload.workspaceId
               THEN [pass EXCEPT !.error = MsgMismatch]
               ELSE pass
          ELSE LET workspace == findByHostname(subdomain)
               IN IF IsWorkspace(workspace)
                  THEN IF workspace.id # payload.workspaceId
                       THEN [error |-> MsgMismatch,
                             found |-> <<workspace.id>>,
                             reads |-> <<"findByHostname">>]
                       ELSE [error |-> "",
                             found |-> <<workspace.id>>,
                             reads |-> <<"findByHostname">>]
                  ELSE [pass EXCEPT !.error = MsgMismatch,
                                    !.reads = <<"findByHostname">>]
     ELSE IF TruthyId(raw.workspaceId)
             /\ raw.workspaceId # payload.workspaceId
          THEN [pass EXCEPT !.error = MsgMismatch]
          ELSE pass

\* The tenant check of validate (up to the token-kind checks):
\* error is "" when the check passes, found holds the workspace a hostname
\* lookup of the validator found, reads lists its store lookups.
TenantCheck(raw, header, payload) ==
  LET hostname == SplitFirst(header, ":")
      subdomain == SplitFirst(hostname, ".")
      pass == [error |-> "", found |-> <<>>, reads |-> <<>>]
  IN IF ~TruthyId(payload.workspaceId)
     THEN [pass EXCEPT !.error = MsgUnauthorized]
     ELSE IF isCloud
     THEN IF IsBaseHost(hostname)
          THEN pass
          ELSE IF TruthyId(raw.workspaceId)
          THEN IF raw.workspaceId # payload.workspaceId
               THEN [pass EXCEPT !.error = MsgMismatch]
               ELSE pass
          ELSE LET workspace == findByHostname(subdomain)
               IN IF IsWorkspace(workspace)
                  THEN IF workspace.id # payload.workspaceId
                       THEN [error |-> MsgMismatch,
                             found |-> <<workspace.id>>,
                             reads |-> <<"findByHostname">>]
                       ELSE [error |-> "",
                             found |-> <<workspace.id>>,
                             reads |-> <<"findByHostname">>]
                  ELSE [pass EXCEPT !.reads = <<"findByHostname">>]
     ELSE IF TruthyId(raw.workspaceId)
             /\ raw.workspaceId # payload.workspaceId
          THEN [pass EXCEPT !.error = MsgMismatch]
          ELSE pass

\* first half of validate, for a request at position pc: the workspace-id
\* and tenant checks
ValidateTenantAt(r, pc) ==
  /\ reqs[r].pc = pc
  /\ reqs[r].route = "guarded"
  /\ LET t == TenantCheck(reqs[r].raw, reqs[r].host, reqs[r].payload)
     IN reqs' = [reqs EXCEPT ![r] =
          [@ EXCEPT !.pc = IF t.error = "" THEN "tenantOk" ELSE "done",
                    !.lookups = @ \o t.found,
                    !.validatorReads = @ \o t.reads,
                    !.res = IF t.error = "" THEN @
                            ELSE Unauthorized(t.error)]]
  /\ UNCHANGED <<boot, env, workspaces, userStatus, now, redeemed, former>>

\* the guard runs after the tenant resolver
ValidateTenant(r) == ValidateTenantAt(r, "resolved")

\* the guard runs on a request the tenant resolver has not handled
\* ("Domain middleware hasn't set workspaceId yet")
ValidateTenantUnresolved(r) == ValidateTenantAt(r, "new")

\* mutant: a missing module fails like any invalid credential
ValidateApiKey_Generic(payload, eeAccepts) ==
  IF apiKeyModuleBundled
  THEN IF eeAccepts
       THEN [error |-> "", reads |-> <<"ApiKeyService">>,
             principal |->
               [user |-> findUserById(payload.sub, payload.workspaceId),
                workspace |-> findWorkspaceById(payload.workspaceId)]]
       ELSE [error |-> MsgUnauthorized, reads |-> <<"ApiKeyService">>,
             principal |-> NoPrincipal]
  ELSE [error |-> MsgUnauthorized, reads |-> <<>>,
        principal |-> NoPrincipal]

\* validateApiKey; eeAccepts is the verdict of the enterprise ApiKeyService
\* when it is bundled
ValidateApiKey(payload, eeAccepts) ==
  IF apiKeyModuleBundled
  THEN IF eeAccepts
       THEN [error |-> "", reads |-> <<"ApiKeyService">>,
             principal |->
               [user |-> findUserById(payload.sub, payload.workspaceId),
                workspace |-> findWorkspaceById(payload.workspaceId)]]
       ELSE [error |-> MsgUnauthorized, reads |-> <<"ApiKeyService">>,
             principal |-> NoPrincipal]
  ELSE [error |-> MsgApiKeyMissing, reads |-> <<>>,
        principal |-> NoPrincipal]

\* mutant: a soft-deleted user still authenticates
KindCheck_IgnoresDeleted(payload, eeAccepts) ==
  LET workspace == findWorkspaceById(payload.workspaceId)
      user == findUserById(payload.sub, payload.workspaceId)
      fail == [error |-> MsgUnauthorized, reads |-> <<>>,
               principal |-> NoPrincipal]
  IN IF payload.type = API_KEY
     THEN ValidateApiKey(payload, eeAccepts)
     ELSE IF payload.type # ACCESS THEN fail
     ELSE IF ~IsWorkspace(workspace)
     THEN [fail EXCEPT !.reads = <<"findWorkspaceById">>]
     ELSE IF user = NoUser \/ user.deactivatedAt
     THEN [fail EXCEPT !.reads = <<"findWorkspaceById", "findUserById">>]
     ELSE [error |-> "", reads |-> <<"findWorkspaceById", "findUserById">>,
           principal |-> [user |-> user, workspace |-> workspace]]

\* mutant: the token kind is not checked
KindCheck_AnyKind(payload, eeAccepts) ==
  LET workspace == findWorkspaceById(payload.workspaceId)
      user == findUserById(payload.sub, payload.workspaceId)
      fail == [error |-> MsgUnauthorized, reads |-> <<>>,
               principal |-> NoPrincipal]
  IN IF payload.type = API_KEY
     THEN ValidateApiKey(payload, eeAccepts)
     ELSE IF ~IsWorkspace(workspace)
     THEN [fail EXCEPT !.reads = <<"findWorkspaceById">>]
     ELSE IF user = NoUser \/ user.deactivatedAt \/ user.deletedAt
     THEN [fail EXCEPT !.reads = <<"findWorkspaceById", "findUserById">>]
     ELSE [error |-> "", reads |-> <<"findWorkspaceById", "findUserById">>,
           principal |-> [user |-> user, workspace |-> workspace]]

\* The token-kind checks of validate: the principal, or the error thrown
KindCheck(payload, eeAccepts) ==
  LET workspace == findWorkspaceById(payload.workspaceId)
      user == findUserById(payload.sub, payload.workspaceId)
      fail == [error |-> MsgUnauthorized, reads |-> <<>>,
               principal |-> NoPrincipal]
  IN IF payload.type = API_KEY
     THEN ValidateApiKey(payload, eeAccepts)
     ELSE IF payload.type # ACCESS THEN fail
     ELSE IF ~IsWorkspace(workspace)
     THEN [fail EXCEPT !.reads = <<"findWorkspaceById">>]
     ELSE IF user = NoUser \/ user.deactivatedAt \/ user.deletedAt
     THEN [fail EXCEPT !.reads = <<"findWorkspaceById", "findUserById">>]
     ELSE [error |-> "", reads |-> <<"findWorkspaceById", "findUserById">>,
           principal |-> [user |-> user, workspace |-> workspace]]

\* second half of validate: the token-kind checks and the principal
ValidatePrincipal(r) ==
  /\ reqs[r].pc = "tenantOk"
  /\ \E eeAccepts \in BOOLEAN :
       LET k == KindCheck(reqs[r].payload, eeAccepts)
       IN reqs' = [reqs EXCEPT ![r] =
            [@ EXCEPT !.pc = IF k.error = "" THEN "authed" ELSE "done",
                      !.principal = k.principal,
                      !.validatorReads = @ \o k.reads,
                      !.res = IF k.error = "" THEN @
                              ELSE Unauthorized(k.error)]]
  /\ UNCHANGED <<boot, env, workspaces, userStatus, now, redeemed, former>>

----------------------------------------------------------------------------
(* WorkspaceController: guarded handlers *)

MsgForbidden == "Forbidden"
MsgHostnameExists == "Hostname already exists."

\* UpdateWorkspaceDto: the hostname is optional and arrives case-normalized
UpdateDtos == [hostname : {Undefined, <<"acme">>, <<"docs">>}]

\* hostnames that may not be assigned to a workspace
DisallowedHostnames == {<<"www">>, <<"wiki">>}

\* mutant: every user may manage the settings
CannotManageSettings_Never(user, workspace) == FALSE

\* workspaceAbility.createForUser(user, workspace)
\*   .cannot(Manage, Settings)
CannotManageSettings(user, workspace) ==
  ~(user.role \in {"owner", "admin"} /\ user.workspaceId = workspace.id)

\* workspaceService.update throws for a hostname that is reserved or taken
UpdateThrows(dto) ==
  /\ TruthyStr(dto.hostname)
  /\ \/ dto.hostname \in DisallowedHostnames
     \/ \E w \in DOMAIN workspaces : Lower(workspaces[w]) = Lower(dto.hostname)

\* the store after workspaceService.update(workspaceId, dto)
UpdatedWorkspaces(workspaceId, dto) ==
  IF TruthyStr(dto.hostname) /\ workspaceId \in DOMAIN workspaces
  THEN [workspaces EXCEPT ![workspaceId] = dto.hostname]
  ELSE workspaces

\* options of res.clearCookie('authToken', ...) on logout and hostname change
ClearCookieOptions ==
  [NoCookie EXCEPT
     !.op = "clear", !.path = <<"/">>,
     !.domain = IF isCloud /\ TruthyStr(getSubdomainHost)
                THEN <<".">> \o getSubdomainHost ELSE Undefined]

\* whether updateWorkspace logs the user out of the old hostname
ClearsOnUpdate(dto, workspace, updatedWorkspace) ==
  /\ TruthyStr(dto.hostname)
  /\ dto.hostname = updatedWorkspace.hostname
  /\ workspace.hostname # updatedWorkspace.hostname

\* POST workspace/info
GetWorkspace(r) ==
  /\ reqs[r].pc = "authed"
  /\ reqs' = [reqs EXCEPT ![r] =
       [@ EXCEPT !.pc = "done", !.handler = "getWorkspace",
                 !.res.status = "ok"]]
  /\ UNCHANGED <<boot, env, workspaces, userStatus, now, redeemed, former>>

\* POST auth/logout
Logout(r) ==
  /\ reqs[r].pc = "authed"
  /\ reqs' = [reqs EXCEPT ![r] =
       [@ EXCEPT !.pc = "done", !.handler = "logout",
                 !.res.status = "ok", !.res.cookie = ClearCookieOptions]]
  /\ UNCHANGED <<boot, env, workspaces, userStatus, now, redeemed, former>>

\* POST workspace/update
UpdateWorkspace(r) ==
  /\ reqs[r].pc = "authed"
  /\ \E dto \in UpdateDtos :
       LET user == reqs[r].principal.user
           workspace == reqs[r].principal.workspace
           after == UpdatedWorkspaces(workspace.id, dto)
           updatedWorkspace == [id |-> workspace.id,
                                hostname |-> after[workspace.id]]
       IN IF CannotManageSettings(user, workspace)
          THEN /\ reqs' = [reqs EXCEPT ![r] =
                    [@ EXCEPT !.pc = "done", !.handler = "updateWorkspace",
                              !.dto = dto,
                              !.res = Forbidden(MsgForbidden)]]
               /\ UNCHANGED <<workspaces, former>>
          ELSE IF UpdateThrows(dto)
          THEN /\ reqs' = [reqs EXCEPT ![r] =
                    [@ EXCEPT !.pc = "done", !.handler = "updateWorkspace",
                              !.dto = dto,
                              !.res = BadRequest(MsgHostnameExists)]]
               /\ UNCHANGED <<workspaces, former>>
          ELSE /\ workspaces' = after
               /\ former' = IF after = workspaces THEN former
                            ELSE former \cup
                                 {<<workspace.id, workspaces[workspace.id]>>}
               /\ reqs' = [reqs EXCEPT ![r] =
                    [@ EXCEPT !.pc = "done", !.handler = "updateWorkspace",
                              !.dto = dto,
                              !.hostnameBefore = workspaces[workspace.id],
                              !.hostnameAfter = after[workspace.id],
                              !.res.status = "ok",
                              !.res.cookie =
                                 IF ClearsOnUpdate(dto, workspace,
                                                   updatedWorkspace)
                                 THEN ClearCookieOptions ELSE NoCookie]]
  /\ UNCHANGED <<boot, env, userStatus, now, redeemed>>

----------------------------------------------------------------------------
(* AuthController: exchange redemption and the session cookie *)

\* time runs from 0 to MaxExp; an exchange token expires early (at 1) or
\* late (at MaxExp)
MaxExp == 3

MsgTokenRequired == "Token is required"
MsgUserInactive == "User not found or inactive"
MsgWorkspaceNotFound == "Workspace not found"
MsgExchangeExpired == "Exchange token has expired. Please try again."
MsgExchangeFormat == "Invalid exchange token format."
MsgInvalidOrExpiredDetail == "Invalid or expired token: <error.message>"
MsgInvalidOrExpired == "Invalid or expired token"

\* what a try block threw
NoError == [class |-> "none", name |-> "", message |-> ""]
UnauthorizedException(msg) ==
  [class |-> "UnauthorizedException", name |-> "UnauthorizedException",
   message |-> msg]
TokenExpiredError ==
  [class |-> "Error", name |-> "TokenExpiredError", message |-> "jwt expired"]
JsonWebTokenError ==
  [class |-> "Error", name |-> "JsonWebTokenError",
   message |-> "invalid token"]
StoreError ==
  [class |-> "Error", name |-> "Error", message |-> "<store failure>"]

\* the exchange tokens the server signs: for a user of a workspace
ExchangePayloads ==
  { [sub |-> u, workspaceId |-> UserWorkspace(u), type |-> EXCHANGE] :
      u \in {"u1", "u2"} }

ExchangeTokens ==
  { AbsentToken,
    [kind |-> "malformed", payload |-> NoPayload, exp |-> 0] }
  \cup [kind : {"signed", "badsig"}, payload : ExchangePayloads,
        exp : {1, MaxExp}]

\* tokenService.verifyJwt(token, JwtType.EXCHANGE): the signature is
\* verified before the expiry
VerifyJwt(token, time) ==
  IF token.kind # "signed" THEN JsonWebTokenError
  ELSE IF time >= token.exp THEN TokenExpiredError
  ELSE NoError

\* tokenService.generateAccessToken(user)
AccessTokenFor(user) ==
  [sub |-> user.id, workspaceId |-> user.workspaceId, type |-> ACCESS]

\* options of res.setCookie('authToken', token, ...) in setAuthCookie
AuthCookie(token) ==
  [op |-> "set", value |-> token, httpOnly |-> TRUE, path |-> <<"/">>,
   secure |-> isHttps, sameSite |-> "lax",
   domain |-> IF isCloud /\ TruthyStr(getSubdomainHost)
              THEN <<".">> \o getSubdomainHost ELSE Undefined]

\* mutant: the redirect always uses https and no port
RedirectUrl_AlwaysHttps(workspace) ==
  <<"https://">> \o workspace.hostname \o <<".">>
    \o TemplateStr(getSubdomainHost)

\* the URL of a workspace's subdomain
RedirectUrl(workspace) ==
  IF isHttps
  THEN <<"https://">> \o workspace.hostname \o <<".">>
         \o TemplateStr(getSubdomainHost)
  ELSE <<"http://">> \o workspace.hostname \o <<".">>
         \o TemplateStr(getSubdomainHost) \o <<":">> \o Port

\* mutant: the user found is not checked
ExchangeThrows_NoUserCheck(token, time, storeFails) ==
  LET user == findUserById(token.payload.sub, token.payload.workspaceId)
      workspace == findWorkspaceById(token.payload.workspaceId)
  IN IF VerifyJwt(token, time) # NoError THEN VerifyJwt(token, time)
     ELSE IF storeFails THEN StoreError
     ELSE IF ~IsWorkspace(workspace)
     THEN UnauthorizedException(MsgWorkspaceNotFound)
     ELSE NoError

\* what the try block of exchangeToken throws, if anything
ExchangeThrows(token, time, storeFails) ==
  LET user == findUserById(token.payload.sub, token.payload.workspaceId)
      workspace == findWorkspaceById(token.payload.workspaceId)
  IN IF VerifyJwt(token, time) # NoError THEN VerifyJwt(token, time)
     ELSE IF storeFails THEN StoreError
     ELSE IF user = NoUser \/ user.deactivatedAt \/ user.deletedAt
     THEN UnauthorizedException(MsgUserInactive)
     ELSE IF ~IsWorkspace(workspace)
     THEN UnauthorizedException(MsgWorkspaceNotFound)
     ELSE NoError

\* mutant: the catch block has no branch for an expired token
ExchangeCatch_NoExpiryBranch(error) ==
  IF error.class = "UnauthorizedException" THEN Unauthorized(error.message)
  ELSE IF error.class = "Error"
  THEN IF error.name = "JsonWebTokenError"
       THEN Unauthorized(MsgExchangeFormat)
       ELSE Unauthorized(MsgInvalidOrExpiredDetail)
  ELSE Unauthorized(MsgInvalidOrExpired)

\* the catch block of exchangeToken: the response for a thrown error
ExchangeCatch(error) ==
  IF error.class = "UnauthorizedException" THEN Unauthorized(error.message)
  ELSE IF error.class = "Error"
  THEN IF error.name = "TokenExpiredError"
       THEN Unauthorized(MsgExchangeExpired)
       ELSE IF error.name = "JsonWebTokenError"
       THEN Unauthorized(MsgExchangeFormat)
       ELSE Unauthorized(MsgInvalidOrExpiredDetail)
  ELSE Unauthorized(MsgInvalidOrExpired)

\* the response of exchangeToken
ExchangeResponse(token, time, storeFails) ==
  LET user == findUserById(token.payload.sub, token.payload.workspaceId)
      workspace == findWorkspaceById(token.payload.workspaceId)
      thrown == ExchangeThrows(token, time, storeFails)
  IN IF token.kind = "absent" THEN BadRequest(MsgTokenRequired)
     ELSE IF thrown # NoError THEN ExchangeCatch(thrown)
     ELSE [NoRes EXCEPT !.status = "redirect",
                        !.cookie = AuthCookie(AccessTokenFor(user)),
                        !.redirect = RedirectUrl(workspace)]

\* GET auth/exchange (public)
ExchangeToken(r) ==
  /\ reqs[r].pc = "resolved"
  /\ reqs[r].route = "exchange"
  /\ \E storeFails \in BOOLEAN :
       LET token == reqs[r].token
           response == ExchangeResponse(token, now, storeFails)
       IN /\ reqs' = [reqs EXCEPT ![r] =
               [@ EXCEPT !.pc = "done", !.handler = "exchangeToken",
                         !.at = now, !.replay = (token \in redeemed),
                         !.res = response]]
          /\ redeemed' = IF response.status = "redirect"
                         THEN redeemed \cup {token} ELSE redeemed
  /\ UNCHANGED <<boot, env, workspaces, userStatus, now, former>>

\* time passes
Tick ==
  /\ now < MaxExp
  /\ now' = now + 1
  /\ UNCHANGED <<boot, env, workspaces, userStatus, reqs, redeemed, former>>

----------------------------------------------------------------------------
(* Public routes that establish a session *)

MsgInvalidWorkspace == "Invalid workspace"
MsgCredentials == "Email or password does not match"
MsgSetupCompleted == "Workspace setup already completed."
MsgForbiddenResource == "Forbidden resource"
MsgCloudOnly == "Cloud login is only available in cloud mode"
MsgCloudLoginBaseOnly == "Cloud login is only allowed from the base domain"
MsgCreateBaseOnly == "Workspace creation is only allowed from the base domain"

\* a 200 response that sets this cookie
OkWithCookie(cookie) == [NoRes EXCEPT !.status = "ok", !.cookie = cookie]
Ok == [NoRes EXCEPT !.status = "ok"]

\* the users that can sign in to a workspace
ActiveUsers(workspaceId) ==
  { u \in UserIds : UserWorkspace(u) = workspaceId /\ userStatus[u] = "active" }

\* outcomes of the auth service for a sign-in attempt: a session, a
\* further step (MFA, or a login after the reset / the invitation), or
\* rejected credentials
SignInOutcomes == {"session", "requiresLogin", "rejected"}

\* a handler that takes @AuthWorkspace() and sets the cookie through
\* setAuthCookie when the service hands out a token
SignInResponse(raw, u, outcome) ==
  IF ~IsWorkspace(raw.workspace) THEN BadRequest(MsgInvalidWorkspace)
  ELSE IF outcome = "rejected" \/ u \notin ActiveUsers(raw.workspace.id)
  THEN Unauthorized(MsgCredentials)
  ELSE IF outcome = "requiresLogin" THEN Ok
  ELSE OkWithCookie(AuthCookie(AccessTokenFor(
         findUserById(u, raw.workspace.id))))

\* POST auth/login and POST auth/password-reset
SignIn(r, route) ==
  /\ reqs[r].pc = "resolved"
  /\ reqs[r].route = route
  /\ \E u \in UserIds, outcome \in SignInOutcomes :
       reqs' = [reqs EXCEPT ![r] =
         [@ EXCEPT !.pc = "done", !.handler = route, !.at = now,
                   !.res = SignInResponse(reqs[r].raw, u, outcome)]]
  /\ UNCHANGED <<boot, env, workspaces, userStatus, now, redeemed, former>>

Login(r) == SignIn(r, "login")
PasswordReset(r) == SignIn(r, "passwordReset")

\* mutant: acceptInvite sets a host-only cookie
InviteCookie_HostOnly(token) ==
  [op |-> "set", value |-> token, httpOnly |-> TRUE, path |-> <<"/">>,
   secure |-> isHttps, sameSite |-> "unset", domain |-> Undefined]

\* options of res.setCookie('authToken', ...) in acceptInvite
InviteCookie(token) ==
  [op |-> "set", value |-> token, httpOnly |-> TRUE, path |-> <<"/">>,
   secure |-> isHttps, sameSite |-> "unset",
   domain |-> IF isCloud THEN <<".">> \o TemplateStr(getSubdomainHost)
              ELSE Undefined]

\* POST workspace/invites/accept: the invited user u joins the workspace
AcceptInvite(r) ==
  /\ reqs[r].pc = "resolved"
  /\ reqs[r].route = "acceptInvite"
  /\ \E u \in UserIds, outcome \in SignInOutcomes :
       LET workspace == reqs[r].raw.workspace
           invited == /\ IsWorkspace(workspace) /\ outcome # "rejected"
                      /\ UserWorkspace(u) = workspace.id
                      /\ userStatus[u] = "missing"
           response ==
             IF ~IsWorkspace(workspace) THEN BadRequest(MsgInvalidWorkspace)
             ELSE IF ~invited THEN BadRequest("Invalid invitation token")
             ELSE IF outcome = "requiresLogin" THEN Ok
             ELSE OkWithCookie(InviteCookie(
                    [sub |-> u, workspaceId |-> workspace.id,
                     type |-> ACCESS]))
       IN /\ reqs' = [reqs EXCEPT ![r] =
               [@ EXCEPT !.pc = "done", !.handler = "acceptInvite",
                         !.at = now, !.res = response]]
          /\ userStatus' = IF invited
                           THEN [userStatus EXCEPT ![u] = "active"]
                           ELSE userStatus
  /\ UNCHANGED <<boot, env, workspaces, now, redeemed, former>>

\* the id the store gives the next workspace, and its first user
FreeWsIds == WsIds \ DOMAIN workspaces
NextWsId == IF "w1" \in FreeWsIds THEN "w1" ELSE "w2"
OwnerOf(w) == IF w = "w1" THEN "u1" ELSE "u2"

\* SetupGuard.canActivate: the message of the ForbiddenException, or ""
SetupGuard ==
  IF isCloud THEN MsgForbiddenResource
  ELSE IF DOMAIN workspaces # {} THEN MsgSetupCompleted
  ELSE ""

\* POST auth/setup: creates the first workspace and its admin
SetupWorkspace(r) ==
  /\ reqs[r].pc = "resolved"
  /\ reqs[r].route = "setup"
  /\ LET w == NextWsId
         authToken == [sub |-> OwnerOf(w), workspaceId |-> w, type |-> ACCESS]
     IN IF SetupGuard # ""
        THEN /\ reqs' = [reqs EXCEPT ![r] =
                  [@ EXCEPT !.pc = "done", !.handler = "setupGuard",
                            !.at = now, !.res = Forbidden(SetupGuard)]]
             /\ UNCHANGED <<workspaces, userStatus>>
        ELSE /\ reqs' = [reqs EXCEPT ![r] =
                  [@ EXCEPT !.pc = "done", !.handler = "setupWorkspace",
                            !.at = now,
                            !.res = OkWithCookie(AuthCookie(authToken))]]
             /\ workspaces' = [x \in DOMAIN workspaces \cup {w} |->
                                 IF x = w THEN Null ELSE workspaces[x]]
             /\ userStatus' = [userStatus EXCEPT ![OwnerOf(w)] = "active"]
  /\ UNCHANGED <<boot, env, now, redeemed, former>>

\* mutant: cloud login is served on every host
CloudLoginForbidden_Never(header) ==
  IF ~isCloud THEN MsgCloudOnly ELSE ""

\* the origin checks of cloudLogin: the message of the
\* ForbiddenException, or ""
CloudLoginForbidden(header) ==
  LET hostname == SplitFirst(header, ":")
  IN IF ~isCloud THEN MsgCloudOnly
     ELSE IF /\ hostname # getSubdomainHost
             /\ hostname # <<"www", ".">> \o TemplateStr(getSubdomainHost)
     THEN MsgCloudLoginBaseOnly
     ELSE ""

\* POST auth/cloud-login (public): signs in the user u of any workspace
CloudLogin(r) ==
  /\ reqs[r].pc = "resolved"
  /\ reqs[r].route = "cloudLogin"
  /\ \E u \in UserIds, outcome \in {"session", "rejected"} :
       LET forbidden == CloudLoginForbidden(reqs[r].host)
           workspace == findWorkspaceById(UserWorkspace(u))
           user == findUserById(u, UserWorkspace(u))
           response ==
             IF forbidden # "" THEN Forbidden(forbidden)
             ELSE IF outcome = "rejected" \/ userStatus[u] # "active"
             THEN Unauthorized(MsgCredentials)
             ELSE [OkWithCookie(AuthCookie(AccessTokenFor(user)))
                     EXCEPT !.redirect = RedirectUrl(workspace)]
       IN reqs' = [reqs EXCEPT ![r] =
            [@ EXCEPT !.pc = "done", !.handler = "cloudLogin",
                      !.at = now, !.res = response]]
  /\ UNCHANGED <<boot, env, workspaces, userStatus, now, redeemed, former>>

\* CreateWorkspaceDto: the hostname of the new workspace
CreateDtos == [hostname : {<<"acme">>, <<"demo">>}]

\* mutant: workspaces are created on every host
CreateForbidden_Never(header) == ""

\* the origin check of createWorkspace: the message of the
\* ForbiddenException, or ""
CreateForbidden(header) ==
  LET hostname == SplitFirst(header, ":")
  IN IF /\ isCloud
        /\ hostname # getSubdomainHost
        /\ hostname # <<"www", ".">> \o TemplateStr(getSubdomainHost)
     THEN MsgCreateBaseOnly
     ELSE ""

\* mutant: createWorkspace always marks the cookie secure
SignupCookie_AlwaysSecure(token) ==
  [op |-> "set", value |-> token, httpOnly |-> TRUE, path |-> <<"/">>,
   secure |-> TRUE, sameSite |-> "unset",
   domain |-> IF isCloud /\ TruthyStr(getSubdomainHost)
              THEN <<".">> \o getSubdomainHost ELSE Undefined]

\* options of res.setCookie('authToken', ...) in createWorkspace
SignupCookie(token) ==
  [op |-> "set", value |-> token, httpOnly |-> TRUE, path |-> <<"/">>,
   secure |-> isHttps, sameSite |-> "unset",
   domain |-> IF isCloud /\ TruthyStr(getSubdomainHost)
              THEN <<".">> \o getSubdomainHost ELSE Undefined]

\* POST workspace/create (public): signs up a user with a new workspace
CreateWorkspace(r) ==
  /\ reqs[r].pc = "resolved"
  /\ reqs[r].route = "createWorkspace"
  /\ \E dto \in CreateDtos :
       LET forbidden == CreateForbidden(reqs[r].host)
           w == NextWsId
           user == OwnerOf(w)
           created == forbidden = "" /\ ~UpdateThrows(dto)
           response ==
             IF forbidden # "" THEN Forbidden(forbidden)
             ELSE IF UpdateThrows(dto) THEN BadRequest(MsgHostnameExists)
             ELSE [OkWithCookie(SignupCookie(
                     [sub |-> user, workspaceId |-> w, type |-> ACCESS]))
                   EXCEPT !.exchangeToken =
                     [sub |-> user, workspaceId |-> w, type |-> EXCHANGE]]
       IN /\ created => FreeWsIds # {}
          /\ reqs' = [reqs EXCEPT ![r] =
               [@ EXCEPT !.pc = "done", !.handler = "createWorkspace",
                         !.dto = dto, !.at = now, !.res = response]]
          /\ workspaces' =
               IF created
               THEN [x \in DOMAIN workspaces \cup {w} |->
                       IF x = w THEN dto.hostname ELSE workspaces[x]]
               ELSE workspaces
          /\ userStatus' = IF created
                           THEN [userStatus EXCEPT ![user] = "active"]
                           ELSE userStatus
  /\ UNCHANGED <<boot, env, now, redeemed, former>>

----------------------------------------------------------------------------
(* Start-up: validate(config), then DatabaseModule.onApplicationBootstrap *)

\* a configuration value that is set and not empty
TruthyVal(v) == v \notin {UndefinedId, NullId, ""}

\* the DATABASE_URL values an operator may set
ValidUrl == "postgresql://docmost@db:5432/docmost"
WrongProtocolUrl == "mysql://docmost@db:3306/docmost"
UnparsableUrl == "db:5432"

\* the database part of the configuration; othersValid says whether the
\* remaining variables pass their validators
Configs ==
  [DATABASE_URL : {UndefinedId, ValidUrl, WrongProtocolUrl, UnparsableUrl},
   DATABASE_HOST : {UndefinedId, "db"},
   DATABASE_PORT : {UndefinedId, "5432"},
   DATABASE_USERNAME : {UndefinedId, "docmost"},
   DATABASE_PASSWORD : {UndefinedId, "secret"},
   DATABASE_NAME : {UndefinedId, "docmost"},
   DATABASE_USER : {UndefinedId, "docmost"},
   DATABASE_DB : {UndefinedId, "docmost"},
   othersValid : BOOLEAN]

hasDatabaseUrl(config) == TruthyVal(config.DATABASE_URL)

hasIndividualParams(config) ==
  /\ TruthyVal(config.DATABASE_HOST)
  /\ TruthyVal(config.DATABASE_PORT)
  /\ TruthyVal(config.DATABASE_USERNAME) \/ TruthyVal(config.DATABASE_USER)
  /\ TruthyVal(config.DATABASE_PASSWORD)
  /\ TruthyVal(config.DATABASE_NAME) \/ TruthyVal(config.DATABASE_DB)

\* new URL(config.DATABASE_URL) parses and has a postgres protocol
IsPostgresUrl(url) == url = ValidUrl

\* the properties of EnvironmentVariables whose decorators fail in
\* validateSync: the five individual parameters are @IsNotEmpty under
\* @ValidateIf(!obj.DATABASE_URL), DATABASE_USER and DATABASE_DB are
\* @IsOptional
ValidationErrors(config) ==
  { f \in {"DATABASE_HOST", "DATABASE_PORT", "DATABASE_USERNAME",
           "DATABASE_PASSWORD", "DATABASE_NAME"} :
      ~TruthyVal(config.DATABASE_URL) /\ ~TruthyVal(config[f]) }
  \cup (IF config.othersValid THEN {} ELSE {"others"})

\* validate(config): TRUE when it returns, FALSE when it exits the process
ValidateReturns(config) ==
  /\ hasDatabaseUrl(config) \/ hasIndividualParams(config)
  /\ hasDatabaseUrl(config) => IsPostgresUrl(config.DATABASE_URL)
  /\ ValidationErrors(config) = {}

retryAttempts == 15

NodeEnvs == {"production", "development", "test"}

\* pc: "idle" (no process), "validate", "bootstrap", "attempt" (the i-th
\* SELECT is in flight), "retryWait", "connected", "migrating", "up",
\* "exited".  History: attempts, failures, succeeded, migrations, exitAt.
BootIdle ==
  [pc |-> "idle", config |-> CHOOSE c \in Configs : TRUE,
   nodeEnv |-> "production", dbUp |-> FALSE, i |-> 0,
   attempts |-> 0, failures |-> 0, succeeded |-> FALSE,
   migrations |-> 0, exitCode |-> 0, exitAt |-> "none"]

\* validate(config)
ValidateConfig ==
  /\ boot.pc = "validate"
  /\ boot' = IF ValidateReturns(boot.config)
             THEN [boot EXCEPT !.pc = "bootstrap"]
             ELSE [boot EXCEPT !.pc = "exited", !.exitCode = 1,
                               !.exitAt = "validate"]
  /\ UNCHANGED <<env, workspaces, userStatus, reqs, now, redeemed, former>>

\* onApplicationBootstrap calls establishConnection: for (let i = 0; ...
OnApplicationBootstrap ==
  /\ boot.pc = "bootstrap"
  /\ boot' = [boot EXCEPT !.pc = IF 0 < retryAttempts THEN "attempt"
                                 ELSE "connected",
                          !.i = 0]
  /\ UNCHANGED <<env, workspaces, userStatus, reqs, now, redeemed, former>>

\* mutant: the last retry is given up one attempt early
ShouldRetry_OffByOne(i) == i < retryAttempts - 2

\* i < retryAttempts - 1
ShouldRetry(i) == i < retryAttempts - 1

\* one iteration of the loop: await sql`SELECT 1=1`.execute(this.db)
Attempt ==
  /\ boot.pc = "attempt"
  /\ boot' =
       IF boot.dbUp
       THEN [boot EXCEPT !.pc = "connected", !.attempts = @ + 1,
                         !.succeeded = TRUE]
       ELSE IF ShouldRetry(boot.i)
       THEN [boot EXCEPT !.pc = "retryWait", !.attempts = @ + 1,
                         !.failures = @ + 1]
       ELSE [boot EXCEPT !.pc = "exited", !.attempts = @ + 1,
                         !.failures = @ + 1, !.exitCode = 1,
                         !.exitAt = "establishConnection"]
  /\ UNCHANGED <<env, workspaces, userStatus, reqs, now, redeemed, former>>

\* the retry delay elapses: i++, then the loop condition
RetryDelay ==
  /\ boot.pc = "retryWait"
  /\ boot' = [boot EXCEPT !.i = @ + 1,
                          !.pc = IF boot.i + 1 < retryAttempts
                                 THEN "attempt" ELSE "connected"]
  /\ UNCHANGED <<env, workspaces, userStatus, reqs, now, redeemed, former>>

\* mutant: migrations run in every environment
MigratesOnBootstrap_Always(nodeEnv) == TRUE

\* this.environmentService.getNodeEnv() === 'production'
MigratesOnBootstrap(nodeEnv) == nodeEnv = "production"

\* establishConnection has returned
AfterConnection ==
  /\ boot.pc = "connected"
  /\ boot' = IF MigratesOnBootstrap(boot.nodeEnv)
             THEN [boot EXCEPT !.pc = "migrating", !.migrations = @ + 1]
             ELSE [boot EXCEPT !.pc = "up"]
  /\ UNCHANGED <<env, workspaces, userStatus, reqs, now, redeemed, former>>

\* migrateToLatest returns
MigrateToLatest ==
  /\ boot.pc = "migrating"
  /\ boot' = [boot EXCEPT !.pc = "up"]
  /\ UNCHANGED <<env, workspaces, userStatus, reqs, now, redeemed, former>>

\* the database becomes reachable or unreachable while the server starts
DatabaseFlips ==
  /\ boot.pc \in {"attempt", "retryWait"}
  /\ boot' = [boot EXCEPT !.dbUp = ~@]
  /\ UNCHANGED <<env, workspaces, userStatus, reqs, now, redeemed, former>>

----------------------------------------------------------------------------
(* Specifications *)

\* the stores a behaviour may start from: hostnames are unique
Stores ==
  { <<>>,
    [w \in {"w1"} |-> <<"acme">>],
    [w \in WsIds |-> IF w = "w1" THEN <<"acme">> ELSE <<"demo">>],
    [w \in WsIds |-> IF w = "w1" THEN <<"wiki">> ELSE <<"www">>] }

\* users exist only in workspaces that exist
UserStatuses(st) ==
  { us \in [UserIds -> {"missing", "active", "deactivated", "deleted"}] :
      /\ \A u \in UserIds :
           (us[u] = "missing") = (UserWorkspace(u) \notin DOMAIN st)
      /\ us["u2"] \in {"missing", "active"}
      /\ us["u3"] \in {"missing", "active"} }

Init ==
  /\ env \in { e \in Envs : ~e.https /\ (e.cloud => e.subdomainHost = BaseDomain) }
  /\ workspaces \in Stores
  /\ userStatus \in UserStatuses(workspaces)
  /\ reqs = [r \in Slots |-> IdleReq]
  /\ now = 0
  /\ redeemed = {}
  /\ former = {}
  /\ boot = BootIdle

Next ==
  \/ \E host \in Hosts, payload \in Payloads :
       NewRequest("r1", "guarded", host, payload, AbsentToken)
  \/ DomainMiddleware("r1")
  \/ ValidateTenant("r1")
  \/ ValidateTenantUnresolved("r1")
  \/ ValidatePrincipal("r1")
  \/ GetWorkspace("r1")

\* one request at a time through the resolver and the validator
Spec == Init /\ [][Next]_vars

\* Two requests in flight against a multi-tenant deployment whose
\* workspaces change hostname.
UpdateHosts ==
  { BaseDomain, <<"acme", ".">> \o BaseDomain, <<"demo", ".">> \o BaseDomain }
UpdatePayloads ==
  { [sub |-> "u1", workspaceId |-> "w1", type |-> ACCESS],
    [sub |-> "u2", workspaceId |-> "w2", type |-> ACCESS],
    [sub |-> "u3", workspaceId |-> "w1", type |-> ACCESS] }

InitUpdate ==
  /\ env = [cloud |-> TRUE, subdomainHost |-> BaseDomain, https |-> FALSE,
            apiKeyModule |-> FALSE]
  /\ workspaces = [w \in WsIds |-> IF w = "w1" THEN <<"acme">> ELSE <<"demo">>]
  /\ userStatus = [u \in UserIds |-> "active"]
  /\ reqs = [r \in Slots |-> IdleReq]
  /\ now = 0
  /\ redeemed = {}
  /\ former = {}
  /\ boot = BootIdle

\* the second request is an owner's, sent to the base domain
OwnerPayloads == { p \in UpdatePayloads : UserRole(p.sub) = "owner" }

NextUpdate ==
  \/ \E host \in UpdateHosts, payload \in UpdatePayloads :
       NewRequest("r1", "guarded", host, payload, AbsentToken)
  \/ \E payload \in OwnerPayloads :
       NewRequest("r2", "guarded", BaseDomain, payload, AbsentToken)
  \/ \E r \in Slots :
    \/ DomainMiddleware(r)
    \/ ValidateTenant(r)
    \/ ValidatePrincipal(r)
    \/ GetWorkspace(r)
    \/ UpdateWorkspace(r)

SpecUpdate == InitUpdate /\ [][NextUpdate]_vars

\* Exchange redemption while time passes.
ExchangeHosts == { BaseDomain, <<"acme", ".">> \o BaseDomain }

\* what a client presents on a guarded route: an exchange token it was
\* handed, or the access token a redemption gave it
ExchangeCredentials ==
  ExchangePayloads
  \cup { [sub |-> p.sub, workspaceId |-> p.workspaceId, type |-> ACCESS] :
           p \in ExchangePayloads }

InitExchange ==
  /\ env \in { e \in Envs : e.cloud /\ e.subdomainHost = BaseDomain
                            /\ ~e.apiKeyModule }
  /\ workspaces \in
       { [w \in WsIds |-> IF w = "w1" THEN <<"acme">> ELSE <<"demo">>],
         [w \in {"w1"} |-> <<"acme">>] }
  /\ userStatus \in UserStatuses(workspaces)
  /\ reqs = [r \in Slots |-> IdleReq]
  /\ now = 0
  /\ redeemed = {}
  /\ former = {}
  /\ boot = BootIdle

NextExchange ==
  \/ \E host \in ExchangeHosts, token \in ExchangeTokens :
       NewRequest("r1", "exchange", host, NoPayload, token)
  \/ \E host \in ExchangeHosts, payload \in ExchangeCredentials :
       NewRequest("r1", "guarded", host, payload, AbsentToken)
  \/ DomainMiddleware("r1")
  \/ ExchangeToken("r1")
  \/ ValidateTenant("r1")
  \/ ValidatePrincipal("r1")
  \/ GetWorkspace("r1")
  \/ Tick

SpecExchange == InitExchange /\ [][NextExchange]_vars

\* The public routes that establish a session, in either deployment mode.
SessionRoutes ==
  {"login", "passwordReset", "acceptInvite", "setup", "cloudLogin",
   "createWorkspace", "exchange"}
SessionHosts ==
  { BaseDomain \o <<":">> \o Port, <<"www", ".">> \o BaseDomain,
    <<"acme", ".">> \o BaseDomain, <<"other", ".">> \o BaseDomain, <<>> }
SessionTokens ==
  { t \in ExchangeTokens :
      t.kind = "absent" \/ (t.kind = "signed" /\ t.exp = MaxExp) }

InitSession ==
  /\ env \in { e \in Envs : ~e.apiKeyModule
                            /\ (e.cloud => e.subdomainHost = BaseDomain) }
  /\ workspaces \in { <<>>, [w \in {"w1"} |-> <<"acme">>] }
  /\ userStatus \in
       { us \in UserStatuses(workspaces) : us["u1"] # "deleted" }
  /\ reqs = [r \in Slots |-> IdleReq]
  /\ now = 0
  /\ redeemed = {}
  /\ former = {}
  /\ boot = BootIdle

NextSession ==
  \/ \E route \in SessionRoutes \ {"exchange"}, host \in SessionHosts :
       NewRequest("r1", route, host, NoPayload, AbsentToken)
  \/ \E host \in SessionHosts, token \in SessionTokens :
       NewRequest("r1", "exchange", host, NoPayload, token)
  \/ DomainMiddleware("r1")
  \/ Login("r1")
  \/ PasswordReset("r1")
  \/ AcceptInvite("r1")
  \/ SetupWorkspace("r1")
  \/ CloudLogin("r1")
  \/ CreateWorkspace("r1")
  \/ ExchangeToken("r1")

SpecSession == InitSession /\ [][NextSession]_vars

\* A session is issued on one connection and cleared on another, in every
\* configuration the environment validation lets through.
CookieHosts == { BaseDomain, <<"acme", ".">> \o BaseDomain }

InitCookie ==
  /\ env \in { e \in Envs : ~e.apiKeyModule }
  /\ workspaces = [w \in {"w1"} |-> <<"acme">>]
  /\ userStatus = [u \in UserIds |-> IF u = "u1" THEN "active" ELSE "missing"]
  /\ reqs = [r \in Slots |-> IdleReq]
  /\ now = 0
  /\ redeemed = {}
  /\ former = {}
  /\ boot = BootIdle

NextCookie ==
  \/ \E route \in {"login", "acceptInvite", "createWorkspace"},
        host \in CookieHosts :
       NewRequest("r1", route, host, NoPayload, AbsentToken)
  \/ DomainMiddleware("r1")
  \/ Login("r1")
  \/ AcceptInvite("r1")
  \/ CreateWorkspace("r1")
  \/ \E host \in CookieHosts :
       NewRequest("r2", "guarded", host,
                  [sub |-> "u1", workspaceId |-> "w1", type |-> ACCESS],
                  AbsentToken)
  \/ DomainMiddleware("r2")
  \/ ValidateTenant("r2")
  \/ ValidatePrincipal("r2")
  \/ Logout("r2")
  \/ UpdateWorkspace("r2")

SpecCookie == InitCookie /\ [][NextCookie]_vars

\* The server process starts: the steps of the process are taken sooner
\* or later, the database comes and goes as it likes.
InitBoot ==
  /\ env = [cloud |-> FALSE, subdomainHost |-> Undefined, https |-> FALSE,
            apiKeyModule |-> FALSE]
  /\ workspaces = <<>>
  /\ userStatus = [u \in UserIds |-> "missing"]
  /\ reqs = [r \in Slots |-> IdleReq]
  /\ now = 0
  /\ redeemed = {}
  /\ former = {}
  /\ \E config \in Configs, nodeEnv \in NodeEnvs, dbUp \in BOOLEAN :
       boot = [BootIdle EXCEPT !.pc = "validate", !.config = config,
                               !.nodeEnv = nodeEnv, !.dbUp = dbUp]

BootStep ==
  \/ ValidateConfig
  \/ OnApplicationBootstrap
  \/ Attempt
  \/ RetryDelay
  \/ AfterConnection
  \/ MigrateToLatest

NextBoot == BootStep \/ DatabaseFlips

SpecBoot == InitBoot /\ [][NextBoot]_vars /\ WF_vars(BootStep)

----------------------------------------------------------------------------
(* Properties of the tenant resolver and the credential validator *)

HostnameOf(q) == SplitFirst(q.host, ":")
FirstLabelOf(q) == SplitFirst(HostnameOf(q), ".")
OnBaseDomain(q) ==
  HostnameOf(q) \in {BaseDomain, <<"www", ".">> \o BaseDomain}
MultiTenant == env.cloud /\ env.subdomainHost = BaseDomain
\* the validator has finished its tenant check of q
TenantChecked(q) ==
  q.route = "guarded" /\ q.pc \in {"tenantOk", "authed", "done"}
Mismatched(q) ==
  \E i \in DOMAIN q.lookups : q.lookups[i] # q.payload.workspaceId
RejectedWith(q, msg) ==
  /\ q.pc = "done" /\ q.handler = "none" /\ q.principal = NoPrincipal
  /\ q.res.status = "unauthorized" /\ q.res.message = msg

\* C1: in multi-tenant mode a token that embeds workspace A, checked on a
\* non-base host for which a hostname lookup (the resolver's or the
\* validator's own) found a workspace B # A, is rejected with
\* 'Workspace does not match', whatever the token kind.
C1_TenantMismatchRejected ==
  \A r \in Slots :
    LET q == reqs[r]
    IN (/\ MultiTenant /\ TenantChecked(q) /\ ~OnBaseDomain(q)
        /\ TruthyId(q.payload.workspaceId) /\ Mismatched(q))
       => RejectedWith(q, MsgMismatch)

C1_Witness ==
  \E r \in Slots :
    LET q == reqs[r]
    IN /\ MultiTenant /\ TenantChecked(q) /\ ~OnBaseDomain(q)
       /\ q.payload.type = API_KEY /\ q.payload.workspaceId = "w1"
       /\ ~q.resolverRan /\ q.lookups = <<"w2">>
       /\ RejectedWith(q, MsgMismatch)

\* C2: in multi-tenant mode, for a Host header whose hostname is the base
\* domain or www.<base>, the resolver sets isBaseDomain, stores a null
\* workspace id and attaches no workspace, whatever the store holds.
C2_BaseDomainMarker ==
  \A r \in Slots :
    LET q == reqs[r]
    IN (MultiTenant /\ q.resolverRan /\ OnBaseDomain(q))
       => /\ q.raw.isBaseDomain
          /\ q.raw.workspaceId = NullId
          /\ q.raw.workspace = NoWorkspace
          /\ q.lookups = <<>>

C2_Witness ==
  \E r \in Slots :
    LET q == reqs[r]
    IN /\ MultiTenant /\ q.resolverRan /\ q.pc = "resolved"
       /\ q.host = <<"www", ".">> \o BaseDomain
       /\ \E w \in DOMAIN workspaces : workspaces[w] = <<"www">>
       /\ q.raw.isBaseDomain /\ q.raw.workspaceId = NullId

\* C3 as stated: in multi-tenant mode the resolver attaches workspace w to
\* a hostname <h>.<base> when w has hostname <h>, and yields 'no workspace'
\* for every other non-base hostname.
C3_AsStated ==
  \A r \in Slots :
    LET q == reqs[r]
        owner == { w \in DOMAIN workspaces :
                     Lower(HostnameOf(q)) =
                       Lower(workspaces[w] \o <<".">> \o BaseDomain) }
    IN (MultiTenant /\ q.pc = "resolved" /\ ~OnBaseDomain(q))
       => IF owner # {}
          THEN q.raw.workspaceId \in owner
          ELSE q.raw.workspaceId = NullId /\ q.raw.workspace = NoWorkspace

\* C3 amended: in multi-tenant mode, on a non-base hostname, the resolver
\* attaches the workspace whose hostname equals the hostname's first label
\* (case-insensitively), whatever follows that label; when no workspace
\* has that hostname it stores a null workspace id and attaches none.  In
\* both cases it calls next once and writes no response.
C3_FirstLabelResolution ==
  \A r \in Slots :
    LET q == reqs[r]
        owner == { w \in DOMAIN workspaces :
                     Lower(workspaces[w]) = Lower(FirstLabelOf(q)) }
    IN (MultiTenant /\ q.pc = "resolved" /\ ~OnBaseDomain(q))
       => /\ q.res = NoRes /\ q.nextCalls = 1
          /\ IF owner # {}
             THEN /\ q.raw.workspaceId \in owner
                  /\ q.raw.workspace = Workspace(q.raw.workspaceId)
             ELSE /\ q.raw.workspaceId = NullId
                  /\ q.raw.workspace = NoWorkspace

C3_Witness ==
  \E r \in Slots :
    LET q == reqs[r]
    IN /\ MultiTenant /\ q.pc = "resolved"
       /\ q.host = <<"acme", ".", "evil", ".", "com">>
       /\ q.raw.workspaceId = "w1" /\ workspaces["w1"] = <<"acme">>

\* C4: in multi-tenant mode a token that embeds a workspace, presented on
\* the base-domain host (base or www.base, with or without port), passes
\* the tenant check without any hostname lookup and is never rejected for
\* tenant mismatch; an Access token whose workspace and active user exist
\* yields the principal of the token's workspace.
C4_BaseDomainBypass ==
  \A r \in Slots :
    LET q == reqs[r]
        p == q.payload
        user == findUserById(p.sub, p.workspaceId)
    IN (/\ MultiTenant /\ TenantChecked(q) /\ OnBaseDomain(q)
        /\ TruthyId(p.workspaceId))
       => /\ q.res.message # MsgMismatch
          /\ q.lookups = <<>>
          /\ \A i \in DOMAIN q.validatorReads :
               q.validatorReads[i] # "findByHostname"
          /\ (/\ p.type = ACCESS /\ q.pc \in {"authed", "done"}
              /\ IsWorkspace(findWorkspaceById(p.workspaceId))
              /\ user # NoUser /\ ~user.deactivatedAt /\ ~user.deletedAt)
             => /\ q.res.status # "unauthorized"
                /\ q.principal.workspace.id = p.workspaceId
                /\ q.principal.user.id = p.sub

C4_Witness ==
  \E r \in Slots :
    LET q == reqs[r]
    IN /\ MultiTenant /\ q.pc = "authed" /\ q.resolverRan
       /\ q.host = BaseDomain \o <<":">> \o Port
       /\ q.raw.workspace = NoWorkspace
       /\ q.principal.workspace.id = "w2"
       /\ workspaces["w1"] = <<"wiki">>

\* C6 as stated: without the API-key module every request that presents an
\* APIKey token fails with 'Enterprise API Key module missing' and with no
\* other error.
C6_AsStated ==
  \A r \in Slots :
    LET q == reqs[r]
    IN (/\ q.route = "guarded" /\ q.pc = "done"
        /\ q.payload.type = API_KEY /\ ~apiKeyModuleBundled)
       => RejectedWith(q, MsgApiKeyMissing)

\* C6 amended: without the API-key module an APIKey token never yields a
\* principal; one that carries a workspace id and passes the tenant check
\* fails with 'Enterprise API Key module missing'.  The only other errors
\* are those of the earlier checks: the generic Unauthorized for a token
\* without workspace id, 'Workspace does not match' for a tenant mismatch.
C6_ApiKeyModuleMissing ==
  \A r \in Slots :
    LET q == reqs[r]
    IN (/\ q.route = "guarded" /\ q.payload.type = API_KEY
        /\ ~apiKeyModuleBundled)
       => /\ q.pc # "authed"
          /\ q.pc = "done" =>
               \/ RejectedWith(q, MsgApiKeyMissing)
               \/ /\ RejectedWith(q, MsgMismatch)
                  /\ TruthyId(q.payload.workspaceId)
               \/ /\ RejectedWith(q, MsgUnauthorized)
                  /\ ~TruthyId(q.payload.workspaceId)

C6_Witness ==
  \E r \in Slots :
    LET q == reqs[r]
    IN /\ q.payload.type = API_KEY /\ ~apiKeyModuleBundled
       /\ q.validatorReads = <<>>
       /\ RejectedWith(q, MsgApiKeyMissing)

\* C10: in both deployment modes and for every token kind, a token whose
\* payload lacks a workspace id is rejected with the generic Unauthorized
\* before the validator compares anything with the host or reads the store.
C10_MissingWorkspaceIdRejected ==
  \A r \in Slots :
    LET q == reqs[r]
    IN (/\ q.route = "guarded" /\ ~TruthyId(q.payload.workspaceId)
        /\ q.pc \notin {"idle", "new", "resolved"})
       => /\ RejectedWith(q, MsgUnauthorized)
          /\ q.validatorReads = <<>>

C10_Witness ==
  \E r \in Slots :
    LET q == reqs[r]
    IN /\ isSelfHosted /\ q.payload.type = EXCHANGE
       /\ ~TruthyId(q.payload.workspaceId)
       /\ TruthyId(q.raw.workspaceId)
       /\ RejectedWith(q, MsgUnauthorized)

----------------------------------------------------------------------------
(* Properties of hostname changes *)

\* q was authenticated on <h>.<base> for workspace w, which carried
\* hostname h until a change committed before q arrived and does not
\* carry it now
AcceptedOnFormerHostname(q) ==
  \E w \in DOMAIN workspaces :
    /\ q.principal.workspace.id = w
    /\ q.payload.workspaceId = w
    /\ <<w, FirstLabelOf(q)>> \in q.formerAtArrival
    /\ HostnameOf(q) = FirstLabelOf(q) \o <<".">> \o BaseDomain
    /\ workspaces[w] # FirstLabelOf(q)

\* C7: once a workspace's hostname has changed from H1 to H2, a session
\* token of that workspace presented on H1.<base> is not accepted by the
\* credential validator.
C7_OldHostnameTokenRejected ==
  \A r \in Slots :
    LET q == reqs[r]
    IN ~(/\ MultiTenant /\ q.route = "guarded" /\ q.pc = "authed"
         /\ AcceptedOnFormerHostname(q))

\* the update served by q changed the stored hostname
ChangedHostname(q) ==
  /\ q.pc = "done" /\ q.handler = "updateWorkspace" /\ q.res.status = "ok"
  /\ q.hostnameBefore # q.hostnameAfter

ClearedAuthCookie(q) ==
  /\ q.res.cookie.op = "clear"
  /\ q.res.cookie.path = <<"/">>
  /\ MultiTenant => q.res.cookie.domain = <<".">> \o BaseDomain

\* C8: when an update request changes the stored hostname from H1 to
\* H2 # H1, its response clears the authToken cookie, with domain
\* '.<base>' in multi-tenant mode.
C8_HostnameChangeClearsCookie ==
  \A r \in Slots :
    LET q == reqs[r]
    IN ChangedHostname(q) => ClearedAuthCookie(q)

\* What the handler does instead: it compares H2 with the hostname of the
\* workspace record the request loaded while it was authenticated, and
\* clears the cookie exactly when the two differ.
Update_ClearsAgainstLoadedRecord ==
  \A r \in Slots :
    LET q == reqs[r]
    IN (/\ q.pc = "done" /\ q.handler = "updateWorkspace"
        /\ q.res.status = "ok" /\ TruthyStr(q.dto.hostname))
       => /\ q.hostnameAfter = q.dto.hostname
          /\ IF q.principal.workspace.hostname # q.hostnameAfter
             THEN ClearedAuthCookie(q)
             ELSE q.res.cookie = NoCookie

Update_ClearsWitness ==
  \E r \in Slots :
    LET q == reqs[r]
    IN /\ MultiTenant /\ ChangedHostname(q)
       /\ q.hostnameBefore = <<"acme">> /\ q.hostnameAfter = <<"docs">>
       /\ q.principal.workspace.hostname = <<"acme">>
       /\ ClearedAuthCookie(q)

----------------------------------------------------------------------------
(* Properties of exchange redemption *)

Redeemed(q) ==
  q.pc = "done" /\ q.handler = "exchangeToken" /\ q.res.status = "redirect"

\* C5: an exchange token is usable once: after one successful redemption
\* every later redemption of the same token fails.
C5_ExchangeTokenSingleUse ==
  \A r \in Slots : ~(Redeemed(reqs[r]) /\ reqs[r].replay)

\* C9: a redemption succeeds only for a validly signed token before its
\* expiry; a validly signed token redeemed at or after its expiry fails
\* with Unauthorized 'Exchange token has expired. Please try again.',
\* which is not the message of a malformed or badly signed token
\* ('Invalid exchange token format.').
C9_ExpiredExchangeToken ==
  \A r \in Slots :
    LET q == reqs[r]
    IN (q.pc = "done" /\ q.handler = "exchangeToken")
       => /\ Redeemed(q) => (q.token.kind = "signed" /\ q.at < q.token.exp)
          /\ (q.token.kind = "signed" /\ q.at >= q.token.exp)
             => /\ q.res = Unauthorized(MsgExchangeExpired)
                /\ q.res.message # MsgExchangeFormat
          /\ q.token.kind \in {"malformed", "badsig"}
             => /\ q.res = Unauthorized(MsgExchangeFormat)
                /\ q.res.message # MsgExchangeExpired

C9_Witness ==
  \E r \in Slots :
    LET q == reqs[r]
    IN /\ q.pc = "done" /\ q.handler = "exchangeToken"
       /\ q.token.kind = "signed" /\ q.at = q.token.exp
       /\ q.token \in redeemed
       /\ q.res = Unauthorized(MsgExchangeExpired)

----------------------------------------------------------------------------
(* Properties of the token-kind checks *)

\* the validator's tenant check let q through
PassedTenantCheck(q) ==
  /\ TenantChecked(q)
  /\ TenantCheck(q.raw, q.host, q.payload).error = ""

\* the workspace and the active user a token names both exist
NamesActiveUser(payload) ==
  /\ payload.workspaceId \in DOMAIN workspaces
  /\ payload.sub \in UserIds
  /\ UserWorkspace(payload.sub) = payload.workspaceId
  /\ userStatus[payload.sub] = "active"

\* C11: for an Access token that passed the tenant check, the validator
\* returns a principal (the token's user and workspace) exactly when the
\* workspace with the token's workspace id exists and the user with
\* (subject, workspace id) exists and is neither deactivated nor
\* soft-deleted; otherwise it fails with Unauthorized.
C11_AccessPrincipal ==
  \A r \in Slots :
    LET q == reqs[r]
    IN (/\ q.payload.type = ACCESS /\ PassedTenantCheck(q)
        /\ q.pc \in {"authed", "done"})
       => IF NamesActiveUser(q.payload)
          THEN /\ q.principal.user.id = q.payload.sub
               /\ q.principal.workspace.id = q.payload.workspaceId
               /\ q.res.status # "unauthorized"
          ELSE RejectedWith(q, MsgUnauthorized)

C11_Witness ==
  \E r \in Slots :
    LET q == reqs[r]
    IN /\ q.payload.type = ACCESS /\ PassedTenantCheck(q)
       /\ q.resolverRan /\ q.raw.workspaceId = q.payload.workspaceId
       /\ userStatus[q.payload.sub] = "deleted"
       /\ RejectedWith(q, MsgUnauthorized)

\* C12: an Exchange token presented on a guarded route never yields a
\* principal: the validator answers Unauthorized and no handler runs.  The
\* redemption endpoint is the only one that consumes it, and it answers
\* with a cookie holding a fresh Access token of the same user and
\* workspace, not with a principal.
C12_ExchangeTokenNoPrincipal ==
  \A r \in Slots :
    LET q == reqs[r]
    IN /\ (q.route = "guarded" /\ q.payload.type = EXCHANGE)
          => /\ q.principal = NoPrincipal
             /\ q.pc # "authed" /\ q.handler = "none"
             /\ q.pc = "done" => q.res.status = "unauthorized"
       /\ Redeemed(q)
          => /\ q.principal = NoPrincipal
             /\ q.res.cookie.op = "set"
             /\ q.res.cookie.value =
                  [sub |-> q.token.payload.sub,
                   workspaceId |-> q.token.payload.workspaceId,
                   type |-> ACCESS]

C12_Witness ==
  \E r \in Slots :
    LET q == reqs[r]
    IN /\ q.route = "guarded" /\ q.payload.type = EXCHANGE
       /\ PassedTenantCheck(q) /\ NamesActiveUser(q.payload)
       /\ q.raw.workspaceId = q.payload.workspaceId
       /\ \E t \in redeemed : t.payload = q.payload
       /\ RejectedWith(q, MsgUnauthorized)

----------------------------------------------------------------------------
(* Properties of single-tenant mode *)

SingleTenant == ~env.cloud

\* C13: in single-tenant mode, for a token that carries a workspace id:
\* when the request carries a workspace id that differs from it, the
\* validator fails with 'Workspace does not match'; when the request
\* carries none (no workspace exists, or the resolver has not run) or
\* the same one, the tenant check passes and validation goes on to the
\* token-kind checks.
C13_SingleTenantCheck ==
  \A r \in Slots :
    LET q == reqs[r]
    IN (SingleTenant /\ TenantChecked(q) /\ TruthyId(q.payload.workspaceId))
       => IF /\ TruthyId(q.raw.workspaceId)
             /\ q.raw.workspaceId # q.payload.workspaceId
          THEN RejectedWith(q, MsgMismatch)
          ELSE /\ q.res.message # MsgMismatch
               /\ (q.pc = "done" /\ q.handler = "none")
                  => /\ RejectedWith(q, q.res.message)
                     /\ q.res.message \in {MsgUnauthorized, MsgApiKeyMissing}

C13_Witness ==
  \E r \in Slots :
    LET q == reqs[r]
    IN /\ SingleTenant /\ TenantChecked(q)
       /\ q.resolverRan /\ q.raw.workspaceId = "w1"
       /\ q.payload = [sub |-> "u2", workspaceId |-> "w2", type |-> ACCESS]
       /\ userStatus["u2"] = "active"
       /\ RejectedWith(q, MsgMismatch)

\* C14: in single-tenant mode with no workspace in the store, the resolver
\* stores a null workspace id, attaches no workspace and calls next; a
\* setup request resolved that way reaches setupWorkspace, which creates
\* the workspace and answers with the session cookie.
C14_SetupReachable ==
  \A r \in Slots :
    LET q == reqs[r]
    IN /\ (SingleTenant /\ DOMAIN workspaces = {} /\ q.resolverRan)
          => /\ q.raw.workspaceId = NullId
             /\ q.raw.workspace = NoWorkspace
             /\ q.nextCalls = 1
             /\ q.res.status # "notfound"
       /\ (/\ SingleTenant /\ q.route = "setup" /\ q.pc = "done"
           /\ q.resolverRan /\ ~IsWorkspace(q.raw.workspace))
          => /\ q.handler = "setupWorkspace"
             /\ q.res.status = "ok" /\ q.res.cookie.op = "set"
             /\ DOMAIN workspaces # {}

C14_Witness ==
  \E r \in Slots :
    LET q == reqs[r]
    IN /\ SingleTenant /\ q.route = "setup" /\ q.pc = "done"
       /\ q.raw.workspaceId = NullId /\ q.nextCalls = 1
       /\ q.handler = "setupWorkspace" /\ q.res.status = "ok"
       /\ DOMAIN workspaces = {"w1"} /\ userStatus["u1"] = "active"

----------------------------------------------------------------------------
(* Properties of the session routes *)

OriginMessage(route) ==
  IF route = "cloudLogin" THEN MsgCloudLoginBaseOnly ELSE MsgCreateBaseOnly

\* C15: in multi-tenant mode, a workspace-creation or cloud-login request
\* whose host is neither the base domain nor www.<base> is answered with
\* Forbidden and the route's 'only allowed from the base domain' reason,
\* and serving it creates no workspace and no user, sets no cookie and
\* issues no exchange token.
C15_ForbiddenOrigin ==
  [][\A r \in Slots :
       (/\ MultiTenant
        /\ reqs[r].route \in {"createWorkspace", "cloudLogin"}
        /\ ~OnBaseDomain(reqs[r])
        /\ reqs[r].pc = "resolved" /\ reqs'[r].pc = "done")
       => /\ reqs'[r].res = Forbidden(OriginMessage(reqs[r].route))
          /\ reqs'[r].res.cookie = NoCookie
          /\ reqs'[r].res.exchangeToken = NoPayload
          /\ workspaces' = workspaces
          /\ userStatus' = userStatus]_vars

C15_Witness ==
  \E r \in Slots :
    LET q == reqs[r]
    IN /\ MultiTenant /\ q.route = "createWorkspace" /\ q.pc = "done"
       /\ q.host = <<"other", ".">> \o BaseDomain
       /\ q.dto.hostname = <<"demo">> /\ FreeWsIds # {}
       /\ ~UpdateThrows(q.dto)
       /\ q.res = Forbidden(MsgCreateBaseOnly)

\* q's response sets the authToken cookie
SetsSessionCookie(q) == q.pc = "done" /\ q.res.cookie.op = "set"

C17_SameSiteLax ==
  \A r \in Slots :
    SetsSessionCookie(reqs[r]) => reqs[r].res.cookie.sameSite = "lax"

\* C18: every response that sets the authToken cookie sets httpOnly, and
\* sets secure exactly when the deployment serves HTTPS.
C18_HttpOnlySecure ==
  \A r \in Slots :
    LET q == reqs[r]
    IN SetsSessionCookie(q)
       => /\ q.res.cookie.httpOnly
          /\ q.res.cookie.secure = env.https

C18_Witness ==
  \E r \in Slots :
    LET q == reqs[r]
    IN /\ SetsSessionCookie(q) /\ q.handler = "createWorkspace"
       /\ ~env.https /\ q.res.cookie.httpOnly /\ ~q.res.cookie.secure

----------------------------------------------------------------------------
(* Properties of error responses and of the resolver's control flow *)

\* the fixed messages of the Unauthorized responses
FixedUnauthorizedMessages ==
  {MsgUnauthorized, MsgMismatch, MsgApiKeyMissing, MsgUserInactive,
   MsgWorkspaceNotFound, MsgExchangeExpired, MsgExchangeFormat,
   MsgInvalidOrExpired}

\* C19: every Unauthorized response of the validator or of exchange
\* redemption carries one of the fixed messages, never the text of an
\* internal error.
C19_NoInternalDetail ==
  \A r \in Slots :
    LET q == reqs[r]
    IN (q.res.status = "unauthorized"
        /\ (q.route = "guarded" \/ q.handler = "exchangeToken"))
       => q.res.message \in FixedUnauthorizedMessages

\* C20: on every path (either mode, base domain, workspace found or not,
\* empty Host header) the resolver has called next exactly once when it
\* returns, throws nothing and leaves the response untouched.
C20_ResolverCallsNextOnce ==
  \A r \in Slots :
    LET q == reqs[r]
    IN q.resolverRan
       => /\ q.nextCalls = 1
          /\ q.res.status # "notfound"
          /\ q.pc # "new"
          /\ q.pc = "resolved" => q.res = NoRes

C20_Witness ==
  \E r \in Slots :
    LET q == reqs[r]
    IN /\ MultiTenant /\ q.pc = "resolved" /\ q.host = <<>>
       /\ q.raw.workspaceId = NullId /\ ~q.raw.isBaseDomain
       /\ q.nextCalls = 1 /\ q.res = NoRes

----------------------------------------------------------------------------
(* Properties of exchange redemption, continued *)

\* q redeemed a validly signed token before its expiry
ValidAtRedemption(q) ==
  /\ q.pc = "done" /\ q.handler = "exchangeToken"
  /\ q.token.kind = "signed" /\ q.at < q.token.exp

\* C21: redeeming a validly signed, unexpired exchange token whose user is
\* active and whose workspace exists sets the authToken cookie to a new
\* Access token of that user and workspace and redirects to
\* https://<hostname>.<base> under HTTPS and to
\* http://<hostname>.<base>:<port> otherwise, <hostname> being the hostname
\* of the token's workspace (unless a lookup fails with an internal error).
C21_RedemptionMintsAndRedirects ==
  \A r \in Slots :
    LET q == reqs[r]
        p == q.token.payload
    IN (MultiTenant /\ ValidAtRedemption(q) /\ NamesActiveUser(p))
       => \/ q.res = Unauthorized(MsgInvalidOrExpiredDetail)
          \/ /\ q.res.status = "redirect"
             /\ q.res.cookie.op = "set"
             /\ q.res.cookie.value =
                  [sub |-> p.sub, workspaceId |-> p.workspaceId,
                   type |-> ACCESS]
             /\ q.res.redirect =
                  IF env.https
                  THEN <<"https://">> \o workspaces[p.workspaceId]
                         \o <<".">> \o BaseDomain
                  ELSE <<"http://">> \o workspaces[p.workspaceId]
                         \o <<".">> \o BaseDomain \o <<":", "3000">>

C21_Witness ==
  \E r \in Slots :
    LET q == reqs[r]
    IN /\ MultiTenant /\ ValidAtRedemption(q) /\ ~env.https
       /\ q.token.payload.sub = "u2" /\ q.host = BaseDomain
       /\ q.res.cookie.op = "set"
       /\ q.res.redirect =
            <<"http://", "demo", ".", "wiki", ".", "weseegpt", ".", "com",
              ":", "3000">>

----------------------------------------------------------------------------
(* Properties of the validator's fallback resolution *)

\* the tenant check rejected q
TenantRejected(q) == RejectedWith(q, MsgMismatch)

\* the verdict of the tenant check had q met the validator in the other
\* order: after the resolver if it came before it, before it otherwise
OtherOrderCheck(q) ==
  TenantCheck(IF q.resolverRan THEN RawInit
              ELSE ResolveRaw(RawInit, q.host),
              q.host, q.payload)

\* C22: in multi-tenant mode on a non-base host, for a token that carries
\* a workspace id: a validator that finds no workspace id on the request
\* looks the workspace up by the host's first label before it decides, and
\* its verdict is the one it would have reached, on the same store, in the
\* other order of resolver and validator.
C22_FallbackEquivalent ==
  \A r \in Slots :
    LET q == reqs[r]
    IN (/\ MultiTenant /\ TenantChecked(q) /\ ~OnBaseDomain(q)
        /\ TruthyId(q.payload.workspaceId))
       => /\ ~TruthyId(q.raw.workspaceId)
             => /\ q.validatorReads # <<>>
                /\ q.validatorReads[1] = "findByHostname"
          /\ TenantRejected(q) <=> (OtherOrderCheck(q).error = MsgMismatch)

C22_Witness ==
  \E r \in Slots :
    LET q == reqs[r]
    IN /\ MultiTenant /\ TenantChecked(q) /\ ~q.resolverRan
       /\ q.host = <<"ACME", ".">> \o BaseDomain \o <<":">> \o Port
       /\ q.payload = [sub |-> "u2", workspaceId |-> "w2", type |-> ACCESS]
       /\ q.validatorReads = <<"findByHostname">>
       /\ TenantRejected(q)
       /\ OtherOrderCheck(q).reads = <<>>

\* C23: in multi-tenant mode, under any interleaving of requests and
\* hostname updates, a request on a non-base host that was given a
\* principal has the token's workspace as the principal's workspace, and
\* every hostname lookup made for it (by the resolver or by the
\* validator's fallback) that found a workspace found that one.
C23_PrincipalMatchesLookups ==
  \A r \in Slots :
    LET q == reqs[r]
    IN (MultiTenant /\ ~OnBaseDomain(q) /\ q.principal # NoPrincipal)
       => /\ q.principal.workspace.id = q.payload.workspaceId
          /\ \A i \in DOMAIN q.lookups :
               q.lookups[i] = q.principal.workspace.id

C23_Witness ==
  \E r \in Slots :
    LET q == reqs[r]
    IN /\ MultiTenant /\ ~OnBaseDomain(q) /\ q.principal # NoPrincipal
       /\ q.resolverRan /\ q.raw.workspaceId = NullId
       /\ q.validatorReads[1] = "findByHostname"
       /\ q.lookups = <<"w1">>
       /\ former # {}

\* C24: in multi-tenant mode, a token that carries a workspace id and is
\* presented on a non-base host whose first label matches no workspace is
\* not rejected with 'Workspace does not match'; the token-kind checks
\* follow, and a valid Access token whose workspace and active user exist
\* yields their principal.
C24_UnknownHostTolerated ==
  \A r \in Slots :
    LET q == reqs[r]
    IN (/\ MultiTenant /\ TenantChecked(q) /\ ~OnBaseDomain(q)
        /\ ~IsWorkspace(findByHostname(FirstLabelOf(q)))
        /\ TruthyId(q.payload.workspaceId))
       => /\ ~TenantRejected(q)
          /\ (/\ q.payload.type = ACCESS /\ NamesActiveUser(q.payload)
              /\ q.pc \in {"authed", "done"})
             => /\ q.principal.user.id = q.payload.sub
                /\ q.principal.workspace.id = q.payload.workspaceId

C24_Witness ==
  \E r \in Slots :
    LET q == reqs[r]
    IN /\ MultiTenant /\ q.resolverRan
       /\ q.host = <<"other", ".">> \o BaseDomain
       /\ q.raw.workspaceId = NullId
       /\ q.validatorReads =
            <<"findByHostname", "findWorkspaceById", "findUserById">>
       /\ q.principal.user.id = "u1" /\ q.principal.workspace.id = "w1"

----------------------------------------------------------------------------
(* Properties of clearing the session cookie *)

ClearsSessionCookie(q) == q.pc = "done" /\ q.res.cookie.op = "clear"

\* C25: in every configuration (single-tenant, multi-tenant with the base
\* domain configured, multi-tenant with the base domain unset) logout and
\* hostname change clear the authToken cookie with the domain and path
\* with which every issuing route (setAuthCookie, invite acceptance,
\* workspace creation) sets it.
C25_ClearMatchesIssue ==
  \A r1 \in Slots, r2 \in Slots :
    (SetsSessionCookie(reqs[r1]) /\ ClearsSessionCookie(reqs[r2]))
    => /\ reqs[r1].res.cookie.domain = reqs[r2].res.cookie.domain
       /\ reqs[r1].res.cookie.path = reqs[r2].res.cookie.path

\* C26: a redemption that fails for any reason (token absent, invalid or
\* expired, user missing, deactivated or soft-deleted, workspace missing)
\* sets no cookie and issues no redirect, and ends with BadRequest when
\* the token is absent and with Unauthorized otherwise; each of these
\* reasons makes the redemption fail.
C26_FailedRedemptionSetsNothing ==
  \A r \in Slots :
    LET q == reqs[r]
    IN (q.pc = "done" /\ q.handler = "exchangeToken")
       => /\ ~Redeemed(q)
             => /\ q.res.cookie = NoCookie
                /\ q.res.redirect = Undefined
                /\ q.res.status =
                     IF q.token.kind = "absent" THEN "badrequest"
                     ELSE "unauthorized"
                /\ q.token \notin redeemed \/ q.replay
          /\ (~ValidAtRedemption(q) \/ ~NamesActiveUser(q.token.payload))
             => ~Redeemed(q)

C26_Witness ==
  \E r \in Slots :
    LET q == reqs[r]
    IN /\ ValidAtRedemption(q)
       /\ userStatus[q.token.payload.sub] = "deactivated"
       /\ q.res = Unauthorized(MsgUserInactive)
       /\ q.res.cookie = NoCookie /\ q.res.redirect = Undefined

----------------------------------------------------------------------------
(* Properties of the workspace update *)

\* C27: an update requested by a user without the Manage-Settings ability
\* is answered with Forbidden, and serving it leaves every workspace's
\* hostname as it was and clears no cookie.
C27_ForbiddenUpdateChangesNothing ==
  [][\A r \in Slots :
       (/\ reqs[r].pc = "authed" /\ reqs'[r].handler = "updateWorkspace"
        /\ ~(reqs[r].principal.user.role \in {"owner", "admin"}))
       => /\ reqs'[r].res = Forbidden(MsgForbidden)
          /\ reqs'[r].res.cookie = NoCookie
          /\ workspaces' = workspaces
          /\ former' = former]_vars

C27_Witness ==
  \E r \in Slots :
    LET q == reqs[r]
    IN /\ q.pc = "done" /\ q.handler = "updateWorkspace"
       /\ q.principal.user.id = "u3" /\ q.principal.user.role = "member"
       /\ q.dto.hostname = <<"docs">>
       /\ q.res = Forbidden(MsgForbidden)
       /\ workspaces["w1"] = <<"acme">> /\ former = {}

----------------------------------------------------------------------------
(* Properties of start-up *)

ConnectionReturned == boot.pc \in {"connected", "migrating", "up"}
ConnectionExited ==
  boot.pc = "exited" /\ boot.exitAt = "establishConnection"

ConnectionAttemptsBounded ==
  /\ boot.attempts <= 15
  /\ boot.attempts = boot.failures + (IF boot.succeeded THEN 1 ELSE 0)
  /\ ConnectionReturned <=> boot.succeeded
  /\ ConnectionExited <=> boot.failures = 15
  /\ ConnectionExited => boot.exitCode = 1 /\ ~boot.succeeded

\* C28: establishConnection always terminates: it makes at most 15
\* attempts, none after the first success, and after the 15th consecutive
\* failure it exits the process with code 1 instead of returning.
C28_EstablishConnectionTerminates ==
  /\ []ConnectionAttemptsBounded
  /\ (boot.pc = "attempt") ~> (ConnectionReturned \/ ConnectionExited)

C28_Witness ==
  /\ ConnectionExited /\ boot.attempts = 15 /\ boot.failures = 15
  /\ boot.exitCode = 1 /\ boot.migrations = 0
  /\ boot.nodeEnv = "production"

\* C29: migrateToLatest is invoked only in production and only after a
\* connection attempt has succeeded; when every attempt fails it is never
\* invoked.
C29_MigrationsAfterConnection ==
  /\ boot.migrations > 0
     => /\ boot.nodeEnv = "production"
        /\ boot.succeeded
        /\ boot.migrations = 1
  /\ (boot.failures = 15 \/ boot.pc = "exited") => boot.migrations = 0
  /\ (boot.pc = "up" /\ boot.nodeEnv = "production") => boot.migrations = 1

C29_Witness ==
  /\ boot.pc = "up" /\ boot.nodeEnv = "production"
  /\ boot.failures = 14 /\ boot.succeeded /\ boot.migrations = 1

\* the alternative names stand in for DATABASE_USERNAME and DATABASE_NAME
UsesAlternativeNames(config) ==
  /\ ~TruthyVal(config.DATABASE_URL)
  /\ TruthyVal(config.DATABASE_HOST) /\ TruthyVal(config.DATABASE_PORT)
  /\ TruthyVal(config.DATABASE_PASSWORD)
  /\ TruthyVal(config.DATABASE_USER) /\ TruthyVal(config.DATABASE_DB)
  /\ ~TruthyVal(config.DATABASE_USERNAME)
  /\ ~TruthyVal(config.DATABASE_NAME)
  /\ config.othersValid

\* C30: a configuration without DATABASE_URL that provides DATABASE_HOST,
\* DATABASE_PORT, DATABASE_PASSWORD, DATABASE_USER and DATABASE_DB and is
\* otherwise valid passes validate() without exiting the process.
C30_AlternativeNamesAccepted ==
  (UsesAlternativeNames(boot.config) /\ boot.pc \notin {"idle", "validate"})
  => boot.exitAt # "validate"

====
